---- MODULE Spec2Model ----
(***************************************************************************)
(* Human-Fall-Detection, main.py: the fall rule (fall_detection), the      *)
(* alarm overlay (draw_falling_alarm), the batch session (process_video:   *)
(* read all frames, ThreadPoolExecutor.map, write) and the live session    *)
(* (process_video2: read, classify, imshow, waitKey).                      *)
(*                                                                         *)
(* Numbers.  Pixel coordinates are drawn from integers.  The code halves   *)
(* the box extent (pose[4] / 2), so every box coordinate is kept as TWICE  *)
(* its value (suffix 2), and int() is modelled on that representation as   *)
(* truncation toward zero.  len_factor is a square root: the model keeps   *)
(* its square and decides each comparison against it exactly.              *)
(***************************************************************************)
EXTENDS Integers, Sequences, FiniteSets, TLC

\* ------------------------------------------------------------------ bounds
MaxCoord == 5
MaxExtent == 3
MaxPersons == 2
MaxFrames == 5
MaxWorkers == 2
MaxLiveFrames == 4

\* cv2.getTextSize('Person Fell down', FONT_HERSHEY_SIMPLEX, 1, 3)[0][1]
text_height == 23

\* Python's None where an outcome is expected, where a box is expected
\* (False, None), and an image with nothing drawn on it.
None == "None"
NoBox == <<>>
NoOverlay == [rect |-> <<>>, org |-> <<>>]
NoImage == [src |-> 0, ann |-> [alarm |-> FALSE, overlay |-> NoOverlay]]

VARIABLES
    \* process_frame on one extractor output
    poses, fpc, is_fall, bbox, drawn,
    \* process_video
    pc, nframes, nworkers, pos, srcOpen, sinkOpen, frames, status, result,
    worker, finished, processed_frames, sink, outcome,
    \* process_video2
    lpc, success, lsrcOpen, windowOpen, shown, image, keyPending,
    signalled, shownAtSignal, loutcome

fvars == <<poses, fpc, is_fall, bbox, drawn>>
bvars == <<pc, nframes, nworkers, pos, srcOpen, sinkOpen, frames, status,
           result, worker, finished, processed_frames, sink, outcome>>
lvars == <<lpc, success, lsrcOpen, windowOpen, shown, image,
           keyPending, signalled, shownAtSignal, loutcome>>
vars == <<fvars, bvars, lvars>>

\* ------------------------------------------------- fall_detection (44-78)
\* One row of output_to_keypoint, the fields fall_detection indexes:
\* cx=pose[2] cy=pose[3] w=pose[4] h=pose[5] lsx=pose[22] lsy=pose[23]
\* rsy=pose[26] lbx=pose[40] lby=pose[41] rby=pose[44] lfy=pose[53]
\* rfy=pose[56].
Person(cx, cy, w, h, lsx, lsy, rsy, lbx, lby, rby, lfy, rfy) ==
    [cx |-> cx, cy |-> cy, w |-> w, h |-> h, lsx |-> lsx, lsy |-> lsy,
     rsy |-> rsy, lbx |-> lbx, lby |-> lby, rby |-> rby, lfy |-> lfy,
     rfy |-> rfy]

\* int(v) for v = v2 / 2: truncation toward zero.
IntOfHalf(v2) == IF v2 >= 0 THEN v2 \div 2 ELSE -((-v2) \div 2)

\* (xmin, ymin, xmax, ymax), each doubled: pose[2] -/+ pose[4] / 2, ...
BBox2(p) == <<2 * p.cx - p.w, 2 * p.cy - p.h, 2 * p.cx + p.w, 2 * p.cy + p.h>>

\* len_factor ** 2
len_factor_sq(p) ==
    (p.lsy - p.lby) * (p.lsy - p.lby) + (p.lsx - p.lbx) * (p.lsx - p.lbx)

\* The inclusive comparison a >= b - sqrt(sq) / k.
GeMinusLen(a, b, sq, k) ==
    LET d == k * (b - a) IN d <= 0 \/ d * d <= sq

\* a > b - sqrt(sq) / k, i.e. sqrt(sq) > k * (b - a).
GtMinusLen(a, b, sq, k) ==
    LET d == k * (b - a) IN d < 0 \/ d * d < sq

\* difference = dy - dx over the truncated corners.
difference(p) ==
    LET b == BBox2(p)
        dx == IntOfHalf(b[3]) - IntOfHalf(b[1])
        dy == IntOfHalf(b[4]) - IntOfHalf(b[2])
    IN dy - dx

\* The condition of the if statement.
IsFallen(p) ==
    LET sq == len_factor_sq(p) IN
    \/ /\ GtMinusLen(p.lsy, p.lfy, sq, 1)
       /\ GtMinusLen(p.lby, p.lfy, sq, 2)
       /\ GtMinusLen(p.lsy, p.lby, sq, 2)
    \/ /\ GtMinusLen(p.rsy, p.rfy, sq, 1)
       /\ GtMinusLen(p.rby, p.rfy, sq, 2)
       /\ GtMinusLen(p.rsy, p.rby, sq, 2)
    \/ difference(p) < 0

\* A loop that keeps the last person matching instead of returning at the
\* first.
RECURSIVE fall_detection_last(_)
fall_detection_last(ps) ==
    IF ps = <<>> THEN <<FALSE, NoBox>>
    ELSE LET rest == fall_detection_last(Tail(ps)) IN
         IF rest[1] THEN rest
         ELSE IF IsFallen(Head(ps)) THEN <<TRUE, BBox2(Head(ps))>>
         ELSE <<FALSE, NoBox>>

\* for pose in poses: ... return True, (xmin, ymin, xmax, ymax);
\* return False, None
RECURSIVE fall_detection(_)
fall_detection(ps) ==
    IF ps = <<>> THEN <<FALSE, NoBox>>
    ELSE IF IsFallen(Head(ps)) THEN <<TRUE, BBox2(Head(ps))>>
    ELSE fall_detection(Tail(ps))

\* ------------------------------------------- draw_falling_alarm (81-88)
\* The rectangle's corners and the label's origin as handed to cv2.
draw_falling_alarm(b) ==
    [rect |-> <<IntOfHalf(b[1]), IntOfHalf(b[2]), IntOfHalf(b[3]), IntOfHalf(b[4])>>,
     org |-> <<IntOfHalf(b[1]), IntOfHalf(b[2] - 2 * text_height - 20)>>]

\* ------------------------------------------------ process_frame (137-143)
\* What process_frame leaves on the image for an extractor output: the
\* overlay when is_fall, nothing otherwise.
Annotation(out) ==
    LET r == fall_detection(out) IN
    IF r[1] THEN [alarm |-> TRUE, overlay |-> draw_falling_alarm(r[2])]
    ELSE [alarm |-> FALSE, overlay |-> NoOverlay]

\* ---------------------------------------------------- extractor outputs
Coord == 0..MaxCoord
HipOffsets == {0, 4}
Shapes == {<<2, 3>>, <<3, 2>>}
CentreYs == {2, 40}

\* One person, every left-side height, either shape.
RichPersons ==
    {Person(3, 3, s[1], s[2], 0, lsy, rsy, lbx, lby, rby, lfy, rfy) :
        s \in Shapes, lsy \in Coord, lby \in Coord, lfy \in Coord,
        lbx \in HipOffsets, rsy \in {0, MaxCoord}, rby \in {0, MaxCoord},
        rfy \in {0, MaxCoord}}

\* Persons for the frames that hold several: both sides alike.
CoarsePersons ==
    {Person(2, cy, w, 2, 0, sy, sy, 0, by, by, fy, fy) :
        cy \in CentreYs, w \in 1..MaxExtent, sy \in {0, MaxCoord},
        by \in {0, MaxCoord}, fy \in {0, MaxCoord}}

SeqsUpTo(S, n) == UNION {[1..k -> S] : k \in 0..n}

\* What get_pose may hand to fall_detection.
ExtractorOutputs ==
    SeqsUpTo(CoarsePersons, MaxPersons) \cup {<<p>> : p \in RichPersons}

\* The outputs the sessions draw from: nobody, a person standing, a person
\* lying near the top of the frame.
StandingPerson == Person(2, 40, 2, 3, 0, 0, 0, 0, 2, 2, 5, 5)
LyingPerson == Person(3, 3, 3, 2, 0, 5, 5, 4, 5, 5, 5, 5)
SessionOutputs == {<<>>, <<StandingPerson>>, <<LyingPerson>>}

\* ------------------------------------------------------- idle sessions
BatchIdle ==
    /\ pc = "idle" /\ nframes = 0 /\ nworkers = 1 /\ pos = 0
    /\ srcOpen = FALSE /\ sinkOpen = FALSE /\ frames = <<>> /\ status = <<>>
    /\ result = <<>> /\ worker = <<>> /\ finished = <<>>
    /\ processed_frames = <<>> /\ sink = <<>> /\ outcome = None

LiveIdle ==
    /\ lpc = "idle" /\ success = FALSE /\ lsrcOpen = FALSE
    /\ windowOpen = FALSE /\ shown = 0 /\ image = NoImage /\ keyPending = FALSE
    /\ signalled = FALSE /\ shownAtSignal = 0 /\ loutcome = None

FrameIdle ==
    /\ poses = <<>> /\ fpc = "idle" /\ is_fall = FALSE /\ bbox = NoBox
    /\ drawn = NoOverlay

\* ------------------------------------------- process_frame, step by step
InitFall ==
    /\ poses \in ExtractorOutputs
    /\ fpc = "start" /\ is_fall = FALSE /\ bbox = NoBox /\ drawn = NoOverlay
    /\ BatchIdle /\ LiveIdle

\* is_fall, bbox = fall_detection(output)
FallDetection ==
    /\ fpc = "start"
    /\ is_fall' = fall_detection(poses)[1]
    /\ bbox' = fall_detection(poses)[2]
    /\ fpc' = "classified"
    /\ UNCHANGED <<poses, drawn, bvars, lvars>>

\* if is_fall: draw_falling_alarm(_image, bbox)
DrawFallingAlarm ==
    /\ fpc = "classified" /\ is_fall
    /\ drawn' = draw_falling_alarm(bbox)
    /\ fpc' = "done"
    /\ UNCHANGED <<poses, is_fall, bbox, bvars, lvars>>

\* return _image, nothing drawn
ReturnImage ==
    /\ fpc = "classified" /\ ~is_fall
    /\ fpc' = "done"
    /\ UNCHANGED <<poses, is_fall, bbox, drawn, bvars, lvars>>

NextFall == FallDetection \/ DrawFallingAlarm \/ ReturnImage

SpecFall == InitFall /\ [][NextFall]_vars

\* ------------------------------------------------ process_video (145-168)
\* The source holds frames 1..nframes; a frame is named by its position.
Workers == 1..nworkers
Pending == {i \in 1..Len(status) : status[i] = "pending"}
Min(S) == CHOOSE i \in S : \A j \in S : i <= j

\* The frames held: read by the loop, not yet written.
held == Len(frames) - Len(sink)

InitBatch ==
    /\ pc = "start"
    /\ nframes \in 0..MaxFrames
    /\ nworkers \in 1..MaxWorkers
    /\ pos = 0 /\ srcOpen = FALSE /\ sinkOpen = FALSE
    /\ frames = <<>> /\ status = <<>> /\ result = <<>>
    /\ worker = [w \in 1..nworkers |-> 0]
    /\ finished = <<>> /\ processed_frames = <<>> /\ sink = <<>>
    /\ outcome = None
    /\ FrameIdle /\ LiveIdle

\* if not vid_cap.isOpened(): print(...); return
OpenFails ==
    /\ pc = "start"
    /\ pc' = "returned" /\ outcome' = "NotOpened"
    /\ UNCHANGED <<nframes, nworkers, pos, srcOpen, sinkOpen, frames, status,
                   result, worker, finished, processed_frames, sink>>
    /\ UNCHANGED <<fvars, lvars>>

\* vid_cap = cv2.VideoCapture(video_path), opened
Open ==
    /\ pc = "start"
    /\ srcOpen' = TRUE /\ pc' = "prepare"
    /\ UNCHANGED <<nframes, nworkers, pos, sinkOpen, frames, status, result,
                   worker, finished, processed_frames, sink, outcome>>
    /\ UNCHANGED <<fvars, lvars>>

\* vid_out = prepare_vid_out(video_path, vid_cap): vid_cap.read()[1] takes
\* a frame from the source to size the writer; on an empty source it is
\* None and letterbox raises.
PrepareVidOut ==
    /\ pc = "prepare"
    /\ IF nframes = 0
       THEN /\ pc' = "returned" /\ outcome' = "Failed"
            /\ UNCHANGED <<pos, sinkOpen>>
       ELSE /\ pos' = pos + 1 /\ sinkOpen' = TRUE /\ pc' = "read"
            /\ UNCHANGED outcome
    /\ UNCHANGED <<nframes, nworkers, srcOpen, frames, status, result, worker,
                   finished, processed_frames, sink>>
    /\ UNCHANGED <<fvars, lvars>>

\* success, frame = vid_cap.read(); while success: frames.append(frame)
ReadFrame ==
    /\ pc = "read" /\ pos < nframes
    /\ pos' = pos + 1
    /\ frames' = Append(frames, pos + 1)
    /\ UNCHANGED <<pc, nframes, nworkers, srcOpen, sinkOpen, status, result,
                   worker, finished, processed_frames, sink, outcome>>
    /\ UNCHANGED <<fvars, lvars>>

\* the read that returns success = False ends the loop; executor.map submits
\* one task per frame
ReadEnd ==
    /\ pc = "read" /\ pos = nframes
    /\ status' = [i \in 1..Len(frames) |-> "pending"]
    /\ result' = [i \in 1..Len(frames) |-> NoImage]
    /\ pc' = "collect"
    /\ UNCHANGED <<nframes, nworkers, pos, srcOpen, sinkOpen, frames, worker,
                   finished, processed_frames, sink, outcome>>
    /\ UNCHANGED <<fvars, lvars>>

\* a pool thread takes the next task of the work queue
StartTask(w) ==
    /\ pc \in {"collect", "shutdown"}
    /\ worker[w] = 0 /\ Pending # {}
    /\ worker' = [worker EXCEPT ![w] = Min(Pending)]
    /\ status' = [status EXCEPT ![Min(Pending)] = "running"]
    /\ UNCHANGED <<pc, nframes, nworkers, pos, srcOpen, sinkOpen, frames,
                   result, finished, processed_frames, sink, outcome>>
    /\ UNCHANGED <<fvars, lvars>>

\* process_frame returns the image
FinishTask(w) ==
    /\ pc \in {"collect", "shutdown"}
    /\ worker[w] # 0
    /\ \E out \in SessionOutputs :
          result' = [result EXCEPT ![worker[w]] =
                        [src |-> frames[worker[w]], ann |-> Annotation(out)]]
    /\ status' = [status EXCEPT ![worker[w]] = "done"]
    /\ finished' = Append(finished, worker[w])
    /\ worker' = [worker EXCEPT ![w] = 0]
    /\ UNCHANGED <<pc, nframes, nworkers, pos, srcOpen, sinkOpen, frames,
                   processed_frames, sink, outcome>>
    /\ UNCHANGED <<fvars, lvars>>

\* get_pose raises inside process_frame: nothing catches it, the future
\* holds the exception
FailTask(w) ==
    /\ pc \in {"collect", "shutdown"}
    /\ worker[w] # 0
    /\ status' = [status EXCEPT ![worker[w]] = "failed"]
    /\ finished' = Append(finished, worker[w])
    /\ worker' = [worker EXCEPT ![w] = 0]
    /\ UNCHANGED <<pc, nframes, nworkers, pos, srcOpen, sinkOpen, frames,
                   result, processed_frames, sink, outcome>>
    /\ UNCHANGED <<fvars, lvars>>

\* A collector that takes results as they complete.
CollectAsCompleted ==
    /\ pc = "collect"
    /\ \E i \in 1..Len(status) :
          /\ status[i] = "done"
          /\ \A k \in 1..Len(processed_frames) : processed_frames[k].src # frames[i]
          /\ processed_frames' = Append(processed_frames, result[i])
    /\ UNCHANGED <<pc, nframes, nworkers, pos, srcOpen, sinkOpen, frames,
                   status, result, worker, finished, sink, outcome>>
    /\ UNCHANGED <<fvars, lvars>>

\* list(executor.map(...)): the next result, in submission order
Collect ==
    /\ pc = "collect"
    /\ Len(processed_frames) < Len(frames)
    /\ status[Len(processed_frames) + 1] = "done"
    /\ processed_frames' = Append(processed_frames, result[Len(processed_frames) + 1])
    /\ UNCHANGED <<pc, nframes, nworkers, pos, srcOpen, sinkOpen, frames,
                   status, result, worker, finished, sink, outcome>>
    /\ UNCHANGED <<fvars, lvars>>

\* the next result is an exception: list() raises, the map generator
\* cancels the tasks not started, processed_frames is never bound
CollectRaises ==
    /\ pc = "collect"
    /\ Len(processed_frames) < Len(frames)
    /\ status[Len(processed_frames) + 1] = "failed"
    /\ status' = [i \in 1..Len(status) |->
                     IF status[i] = "pending" THEN "cancelled" ELSE status[i]]
    /\ processed_frames' = <<>>
    /\ pc' = "shutdown"
    /\ UNCHANGED <<nframes, nworkers, pos, srcOpen, sinkOpen, frames, result,
                   worker, finished, sink, outcome>>
    /\ UNCHANGED <<fvars, lvars>>

\* the with block waits for the running tasks, then the exception leaves
\* process_video
ShutdownRaises ==
    /\ pc = "shutdown"
    /\ \A w \in Workers : worker[w] = 0
    /\ pc' = "returned" /\ outcome' = "Failed"
    /\ UNCHANGED <<nframes, nworkers, pos, srcOpen, sinkOpen, frames, status,
                   result, worker, finished, processed_frames, sink>>
    /\ UNCHANGED <<fvars, lvars>>

\* every result collected: the with block ends
CollectDone ==
    /\ pc = "collect"
    /\ Len(processed_frames) = Len(frames)
    /\ pc' = "write"
    /\ UNCHANGED <<nframes, nworkers, pos, srcOpen, sinkOpen, frames, status,
                   result, worker, finished, processed_frames, sink, outcome>>
    /\ UNCHANGED <<fvars, lvars>>

\* A writer that does not wait for the list.
WriteFrameEarly ==
    /\ pc \in {"collect", "write"}
    /\ Len(sink) < Len(processed_frames)
    /\ sink' = Append(sink, processed_frames[Len(sink) + 1])
    /\ UNCHANGED <<pc, nframes, nworkers, pos, srcOpen, sinkOpen, frames,
                   status, result, worker, finished, processed_frames, outcome>>
    /\ UNCHANGED <<fvars, lvars>>

\* for _image in processed_frames: vid_out.write(_image)
WriteFrame ==
    /\ pc = "write"
    /\ Len(sink) < Len(processed_frames)
    /\ sink' = Append(sink, processed_frames[Len(sink) + 1])
    /\ UNCHANGED <<pc, nframes, nworkers, pos, srcOpen, sinkOpen, frames,
                   status, result, worker, finished, processed_frames, outcome>>
    /\ UNCHANGED <<fvars, lvars>>

\* vid_out.release(); print(...); the function returns
ReleaseOut ==
    /\ pc = "write"
    /\ Len(sink) = Len(processed_frames)
    /\ sinkOpen' = FALSE
    /\ pc' = "returned" /\ outcome' = "Completed"
    /\ UNCHANGED <<nframes, nworkers, pos, srcOpen, frames, status, result,
                   worker, finished, processed_frames, sink>>
    /\ UNCHANGED <<fvars, lvars>>

Next ==
    \/ OpenFails \/ Open \/ PrepareVidOut \/ ReadFrame \/ ReadEnd
    \/ \E w \in Workers : StartTask(w)
    \/ \E w \in Workers : FinishTask(w)
    \/ \E w \in Workers : FailTask(w)
    \/ Collect \/ CollectRaises \/ ShutdownRaises \/ CollectDone
    \/ WriteFrame \/ ReleaseOut

Spec == InitBatch /\ [][Next]_vars

\* ----------------------------------------------- process_video2 (170-208)
\* The camera delivers at most MaxLiveFrames frames; any read may fail.
InitLive ==
    /\ lpc = "start" /\ success = FALSE /\ lsrcOpen = FALSE
    /\ windowOpen = FALSE /\ shown = 0 /\ image = NoImage /\ keyPending = FALSE
    /\ signalled = FALSE /\ shownAtSignal = 0 /\ loutcome = None
    /\ FrameIdle /\ BatchIdle

\* if not vid_cap.isOpened(): print(...); return
LiveOpenFails ==
    /\ lpc = "start"
    /\ lpc' = "returned" /\ loutcome' = "NotOpened"
    /\ UNCHANGED <<success, lsrcOpen, windowOpen, shown, image, keyPending,
                   signalled, shownAtSignal>>
    /\ UNCHANGED <<fvars, bvars>>

\* vid_cap = cv2.VideoCapture(0, cv2.CAP_DSHOW), opened
LiveOpen ==
    /\ lpc = "start"
    /\ lsrcOpen' = TRUE /\ lpc' = "read"
    /\ UNCHANGED <<success, windowOpen, shown, image, keyPending, signalled,
                   shownAtSignal, loutcome>>
    /\ UNCHANGED <<fvars, bvars>>

\* while True: success, frame = vid_cap.read()
LiveRead ==
    /\ lpc = "read"
    /\ \E ok \in BOOLEAN :
          /\ ok => shown < MaxLiveFrames
          /\ success' = ok
    /\ lpc' = "test"
    /\ UNCHANGED <<lsrcOpen, windowOpen, shown, image, keyPending, signalled,
                   shownAtSignal, loutcome>>
    /\ UNCHANGED <<fvars, bvars>>

\* if success: the body; otherwise back to the top of the loop
LiveTest ==
    /\ lpc = "test"
    /\ lpc' = IF success THEN "pose" ELSE "read"
    /\ UNCHANGED <<success, lsrcOpen, windowOpen, shown, image, keyPending,
                   signalled, shownAtSignal, loutcome>>
    /\ UNCHANGED <<fvars, bvars>>

\* get_pose, prepare_image, fall_detection, draw_falling_alarm, cv2.imshow
LiveShow ==
    /\ lpc = "pose"
    /\ \E out \in SessionOutputs :
          image' = [src |-> shown + 1, ann |-> Annotation(out)]
    /\ shown' = shown + 1
    /\ windowOpen' = TRUE
    /\ lpc' = "waitkey"
    /\ UNCHANGED <<success, lsrcOpen, keyPending, signalled, shownAtSignal,
                   loutcome>>
    /\ UNCHANGED <<fvars, bvars>>

\* get_pose raises: nothing catches it, the exception leaves process_video2
LivePoseRaises ==
    /\ lpc = "pose"
    /\ lpc' = "returned" /\ loutcome' = "Failed"
    /\ UNCHANGED <<success, lsrcOpen, windowOpen, shown, image, keyPending,
                   signalled, shownAtSignal>>
    /\ UNCHANGED <<fvars, bvars>>

\* key = cv2.waitKey(1); if key == ord('q'): break;
\* if not success: sys.exit(...)
LiveWaitKey ==
    /\ lpc = "waitkey"
    /\ IF keyPending
       THEN /\ keyPending' = FALSE /\ lpc' = "release"
            /\ UNCHANGED loutcome
       ELSE IF ~success
       THEN /\ lpc' = "returned" /\ loutcome' = "Failed"
            /\ UNCHANGED keyPending
       ELSE /\ lpc' = "read"
            /\ UNCHANGED <<keyPending, loutcome>>
    /\ UNCHANGED <<success, lsrcOpen, windowOpen, shown, image, signalled,
                   shownAtSignal>>
    /\ UNCHANGED <<fvars, bvars>>

\* The user presses 'q' in the window at any moment; the key waits for the
\* next waitKey.  shownAtSignal remembers how many frames were shown by then.
PressQ ==
    /\ windowOpen /\ ~signalled /\ lpc # "returned"
    /\ keyPending' = TRUE /\ signalled' = TRUE
    /\ shownAtSignal' = shown
    /\ UNCHANGED <<lpc, success, lsrcOpen, windowOpen, shown, image, loutcome>>
    /\ UNCHANGED <<fvars, bvars>>

\* vid_cap.release()
LiveRelease ==
    /\ lpc = "release"
    /\ lsrcOpen' = FALSE /\ lpc' = "destroy"
    /\ UNCHANGED <<success, windowOpen, shown, image, keyPending, signalled,
                   shownAtSignal, loutcome>>
    /\ UNCHANGED <<fvars, bvars>>

\* cv2.destroyAllWindows(); the function returns
LiveDestroy ==
    /\ lpc = "destroy"
    /\ windowOpen' = FALSE
    /\ lpc' = "returned" /\ loutcome' = "Cancelled"
    /\ UNCHANGED <<success, lsrcOpen, shown, image, keyPending, signalled,
                   shownAtSignal>>
    /\ UNCHANGED <<fvars, bvars>>

\* The steps of the thread running process_video2.
LiveProgram ==
    \/ LiveOpenFails \/ LiveOpen \/ LiveRead \/ LiveTest \/ LiveShow
    \/ LivePoseRaises \/ LiveWaitKey \/ LiveRelease \/ LiveDestroy

NextLive == LiveProgram \/ PressQ

\* The thread always gets to run; the camera and the user owe nothing.
SpecLive == InitLive /\ [][NextLive]_vars /\ WF_vars(LiveProgram)

\* ------------------------------------------------- the fall rule, claims
Classified == fpc \in {"classified", "done"}

\* sqrt(sq) >= d and sqrt(sq) > d, for the statements below.
RootAtLeast(sq, d) == d <= 0 \/ sq >= d * d
RootAbove(sq, d) == d < 0 \/ sq > d * d

\* Condition (a) of the rule as the specification words it, with >=.
LeftInclusive(p) ==
    LET sq == len_factor_sq(p) IN
    /\ RootAtLeast(sq, p.lfy - p.lsy)
    /\ RootAtLeast(sq, 2 * (p.lfy - p.lby))
    /\ RootAtLeast(sq, 2 * (p.lby - p.lsy))

\* Condition (a) with every comparison strict.
LeftStrict(p) ==
    LET sq == len_factor_sq(p) IN
    /\ RootAbove(sq, p.lfy - p.lsy)
    /\ RootAbove(sq, 2 * (p.lfy - p.lby))
    /\ RootAbove(sq, 2 * (p.lby - p.lsy))

\* Condition (b), strict.
RightStrict(p) ==
    LET sq == len_factor_sq(p) IN
    /\ RootAbove(sq, p.rfy - p.rsy)
    /\ RootAbove(sq, 2 * (p.rfy - p.rby))
    /\ RootAbove(sq, 2 * (p.rby - p.rsy))

\* The box of a person, doubled: centre -/+ extent / 2.
IsBoxOf(b, p) ==
    /\ b[1] + p.w = 2 * p.cx /\ b[3] - p.w = 2 * p.cx
    /\ b[2] + p.h = 2 * p.cy /\ b[4] - p.h = 2 * p.cy

\* C7, as claimed: a lone person satisfying the three inequalities of
\* condition (a) with >=, equality included, is reported Fallen.
C7_InclusiveRule ==
    (Classified /\ Len(poses) = 1 /\ LeftInclusive(poses[1])) => is_fall

\* C7, amended: the comparisons are strict.  A lone person satisfying the
\* three inequalities of (a) with > is Fallen with its box, whatever (b) and
\* (c) say; one satisfying them only with an equality is not Fallen unless
\* (b) holds or the truncated box is wider than tall.
C7_StrictRule ==
    (Classified /\ Len(poses) = 1) =>
        LET p == poses[1] IN
        /\ LeftStrict(p) => (is_fall /\ IsBoxOf(bbox, p))
        /\ (LeftInclusive(p) /\ ~LeftStrict(p) /\ ~RightStrict(p)
              /\ difference(p) >= 0) => ~is_fall

\* C7 witness: a person at the boundary of (a), shoulderY == footY -
\* lenFactor exactly, for whom neither (b) nor (c) holds, has been
\* classified, and the verdict is Upright.
C7_Witness ==
    /\ Classified /\ Len(poses) = 1
    /\ poses[1].lfy - poses[1].lsy >= 0
    /\ (poses[1].lfy - poses[1].lsy) * (poses[1].lfy - poses[1].lsy)
           = len_factor_sq(poses[1])
    /\ LeftInclusive(poses[1]) /\ ~RightStrict(poses[1])
    /\ difference(poses[1]) >= 0
    /\ ~is_fall

Qualifying == {i \in 1..Len(poses) : IsFallen(poses[i])}

\* C8: at most one verdict, the first qualifying person's: Fallen with that
\* person's box when somebody qualifies, Upright (False, no box) exactly when
\* nobody does, the empty sequence included.
C8_FirstMatchWins ==
    Classified =>
        IF Qualifying = {}
        THEN ~is_fall /\ bbox = NoBox
        ELSE LET first == CHOOSE i \in Qualifying :
                              \A j \in Qualifying : i <= j
             IN is_fall /\ IsBoxOf(bbox, poses[first])

\* C8 witness: two persons qualify, their boxes differ, and the verdict
\* carries the first one's.
C8_Witness ==
    /\ Classified /\ Len(poses) = 2 /\ Qualifying = {1, 2}
    /\ poses[1].w # poses[2].w
    /\ is_fall /\ IsBoxOf(bbox, poses[1])

\* C9: the label's vertical position handed to the renderer is never above
\* the frame's top boundary.
C9_LabelInsideFrame ==
    (fpc = "done" /\ is_fall) => drawn.org[2] >= 0

\* ------------------------------------------------ process_video, claims
Completed == pc = "returned" /\ outcome = "Completed"

\* C1: whatever the worker count and the order of completion, the frames
\* are written in the order they were read: of two written frames, the one
\* read first is written first.
C1_WrittenInReadOrder ==
    \A i, j \in 1..Len(sink) : i < j => sink[i].src < sink[j].src

\* C1 witness: a run with two workers completed, it wrote several frames,
\* and a frame finished processing before one read earlier.
C1_Witness ==
    /\ Completed /\ nworkers >= 2 /\ Len(sink) >= 2
    /\ \E i, j \in 1..Len(finished) : i < j /\ finished[i] > finished[j]

\* C2: a completed run on a source of N frames has written exactly N
\* frames, the k-th written frame being the annotation of the source's k-th.
C2_AllFramesEmitted ==
    Completed =>
        /\ Len(sink) = nframes
        /\ \A k \in 1..Len(sink) : sink[k].src = k

\* C3, as claimed: the frames read and not yet written never exceed the
\* pool size plus a small slack (two).
C3_BoundedInFlight == held <= nworkers + 2

\* C3, amended: the frames read and not yet written are bounded by the
\* length of the stream only.  Every frame is read before the first is
\* dispatched and none is written before all are processed, so intake never
\* stalls and every frame the read loop returned is held at once.
C3_HeldUpToStream ==
    /\ held <= nframes
    /\ status # <<>> => (pos = nframes /\ Len(status) = Len(frames))
    /\ sink # <<>> => (pos = nframes /\ Len(processed_frames) = Len(frames))
    /\ pc = "collect" => held = Len(frames)

\* C3 witness: while the pool is at work, more frames are held than the
\* pool size plus two.
C3_Witness ==
    /\ pc = "collect" /\ \E w \in Workers : worker[w] # 0
    /\ held > nworkers + 2

\* C6: an extractor failure on a frame does not abort the run: the run
\* completes, every frame read is written in order, and the failed frame
\* carries no alarm.
C6_ExtractorFailureContained ==
    (pc = "returned" /\ \E i \in 1..Len(status) : status[i] = "failed") =>
        /\ outcome = "Completed"
        /\ Len(sink) = Len(frames)
        /\ \A k \in 1..Len(sink) :
              /\ sink[k].src = frames[k]
              /\ status[k] = "failed" => ~sink[k].ann.alarm

\* C10: a session that opened its source returns with the sink closed and
\* the source released.
C10_ResourcesReleased ==
    (pc = "returned" /\ outcome # "NotOpened") => (~srcOpen /\ ~sinkOpen)

\* ----------------------------------------------- process_video2, claims
\* C4: once a read fails, the session eventually terminates.
C4_ReadFailureTerminates ==
    (lpc = "test" /\ ~success) ~> (lpc = "returned")

\* C5: after cancellation is signalled with N frames shown, at most N plus
\* a window of one frame are ever shown, and a session that returns does so
\* Cancelled, with the source released and the windows destroyed.
C5_CancelEndsCancelled ==
    signalled =>
        /\ shown <= shownAtSignal + 1
        /\ lpc = "returned" =>
              (loutcome = "Cancelled" /\ ~lsrcOpen /\ ~windowOpen)
====
